---- MODULE Spec2Model ----
(***************************************************************************)
(* A model of jacobgit (src/jacobgit.py): a content-addressed object       *)
(* store, a staging index, refs and HEAD, and the commands that act on     *)
(* them.  One action per command invocation (process-per-invocation, no    *)
(* interleaving inside a command); the working directory is edited by the  *)
(* user between invocations.                                               *)
(*                                                                         *)
(* Representation.                                                         *)
(*  - a path is the sequence of its components: "d/f" is <<"d","f">>,      *)
(*    the empty prefix "" is <<>>; os.path.split is (Front, Last) and      *)
(*    os.path.join / f"{prefix}/{name}" is Append;                         *)
(*  - an object file is <<type, data>>: the header "<type> <len>\0"        *)
(*    followed by the payload (the length is decided by the payload);      *)
(*  - SHA-1 is a collision-free digest of the framed bytes: the id of an   *)
(*    object is <<"sha1", full>>;  None/"" (both falsy in the code) is     *)
(*    the empty tuple;                                                     *)
(*  - a tree payload is the sequence of its items <<mode, name, sha>>;     *)
(*    a commit payload is the sequence of its text lines, a line being     *)
(*    the tuple of its space-separated fields.                             *)
(***************************************************************************)
EXTENDS Naturals, Sequences, FiniteSets, TLC

VARIABLES
  dirs,      \* directories that exist under the repository root's .jacobgit
  HEAD,      \* .jacobgit/HEAD: absent, "ref: refs/heads/<name>\n" or "<sha>\n"
  heads,     \* .jacobgit/refs/heads/<name>  -> content (a SHA)
  tags,      \* .jacobgit/refs/tags/<name>   -> content (a SHA)
  objects,   \* .jacobgit/objects/<sha>      -> framed bytes
  index,     \* .jacobgit/index: absent, or the list of IndexEntry records
  wt,        \* working tree: path -> file bytes
  made,      \* history: the SHAs returned by the successful commits, in order
  out        \* the last invocation: command, arguments, exit code, result

vars == <<dirs, HEAD, heads, tags, objects, index, wt, made, out>>

-----------------------------------------------------------------------------
(* Bounds and input sets *)

MaxCommits == 1          \* commit invocations explored with every command enabled
MaxChain == 2            \* commit invocations explored in the narrower specifications
MaxAddArgs == 2          \* paths listed in one add invocation

Paths == {<<"a">>, <<"d", "f">>}
TreePaths == {<<"a">>, <<"b">>}     \* two files of one directory
Contents == {"1", "2"}
BranchNames == {"master", "ster"}
NestedBranchNames == {"x/y"}
AliasBranchNames == {"./master"}   \* another spelling of refs/heads/master
\* names that lead out of refs/heads to a tag file, the index and HEAD
OutsideNames == {"../tags/v1", "../../index", "../../HEAD"}
ObjectsPrefix == "../../objects/"  \* followed by an object id: an object file
TagNames == {"v1"}
Messages == {"", "A"}
StatModes == {33188}     \* st_mode of a regular file, 0o100644
StatMtimes == {0}
Times == {0}

TreeMode == 16384        \* 0o040000

None == <<>>
NoFile == [exists |-> FALSE, size |-> 0, entries |-> <<>>]

\* The characters of the names, for str.endswith.
Chars(s) ==
  CASE s = "master" -> <<"m", "a", "s", "t", "e", "r">>
    [] s = "ster"   -> <<"s", "t", "e", "r">>
    [] s = "refs"   -> <<"r", "e", "f", "s">>
    [] s = "heads"  -> <<"h", "e", "a", "d", "s">>
    [] s = "-d"     -> <<"-", "d">>
    [] s = "x/y"    -> <<"x", "/", "y">>
    [] s = "./master" -> <<".", "/", "m", "a", "s", "t", "e", "r">>
    [] s \in {"a", "b", "d", "f"} -> <<s>>
    [] s = "v1" -> <<"v", "1">>
    [] s = "../tags/v1" -> <<".", ".", "/", "t", "a", "g", "s", "/", "v", "1">>
    [] s = "../../index" -> <<".", ".", "/", ".", ".", "/", "i", "n", "d", "e", "x">>
    [] s = "../../HEAD" -> <<".", ".", "/", ".", ".", "/", "H", "E", "A", "D">>
    [] s = "../../objects/" ->
         <<".", ".", "/", ".", ".", "/", "o", "b", "j", "e", "c", "t", "s", "/">>

RECURSIVE JoinSlash(_)
JoinSlash(ref) ==
  IF ref = <<>> THEN <<>>
  ELSE IF Len(ref) = 1 THEN Chars(ref[1])
  ELSE Chars(ref[1]) \o <<"/">> \o JoinSlash(Tail(ref))

EndsWith(s, t) ==
  /\ Len(t) <= Len(s)
  /\ SubSeq(s, Len(s) - Len(t) + 1, Len(s)) = t

Front(s) == SubSeq(s, 1, Len(s) - 1)
Last(s) == s[Len(s)]

RECURSIVE Reverse(_)
Reverse(s) == IF s = <<>> THEN <<>> ELSE Append(Reverse(Tail(s)), Head(s))

RECURSIVE SeqsUpTo(_, _)
SeqsUpTo(S, n) ==
  IF n = 0 THEN {<<>>}
  ELSE LET shorter == SeqsUpTo(S, n - 1)
       IN  shorter \cup {Append(q, x) : q \in shorter, x \in S}

Restrict(f, S) == [x \in S |-> f[x]]

-----------------------------------------------------------------------------
(* Object store *)

Sha1(full) == <<"sha1", full>>

hash_blob(data) == Sha1(<<"blob", data>>)

\* A header that carries the number of objects already stored.
write_object_salted(objs, obj_type, data) ==
  LET full == <<obj_type, data, Cardinality(DOMAIN objs)>>
      sha1 == Sha1(full)
  IN  [sha |-> sha1,
       objects |-> IF sha1 \in DOMAIN objs THEN objs ELSE (sha1 :> full) @@ objs]

\* write_object: returns the SHA and the store after the write.
write_object(objs, obj_type, data) ==
  LET full == <<obj_type, data>>
      sha1 == Sha1(full)
  IN  [sha |-> sha1,
       objects |-> IF sha1 \in DOMAIN objs THEN objs ELSE (sha1 :> full) @@ objs]

\* read_object: (type, payload); open() raises when the file is missing.
ObjectExists(objs, sha) == sha \in DOMAIN objs
read_object(objs, sha) == [type |-> objs[sha][1], raw |-> objs[sha][2]]

-----------------------------------------------------------------------------
(* Index *)

IndexEntry(path, mode, mtime, sha1) ==
  [path |-> path, mode |-> mode, mtime |-> mtime, sha1 |-> sha1]

\* A reader that finds no entry.
read_index_empty(idx) == <<>>

\* read_index raises ValueError("Invalid index header") when the file holds
\* fewer than the 12 bytes of the header.
index_invalid(idx) == idx.exists /\ idx.size < 12

\* read_index: a missing file is the empty list; otherwise the entries the
\* header counts.
read_index(idx) == IF idx.exists THEN idx.entries ELSE <<>>

\* The bytes write_index writes: a header of 12 bytes, and for each entry 10
\* bytes of lengths, mode and mtime, 20 of SHA and the bytes of the path.
RECURSIVE IndexBytes(_)
IndexBytes(entries) ==
  IF entries = <<>> THEN 12
  ELSE 30 + Len(JoinSlash(Head(entries).path)) + IndexBytes(Tail(entries))

\* open(index_path, 'wb'): the file exists and is empty.
open_index(idx) == [exists |-> TRUE, size |-> 0, entries |-> <<>>]

\* The end of the with block: the buffered bytes are written from offset 0
\* of the file as it then is; bytes beyond them stay and are never read.
close_index(idx, entries) ==
  [exists |-> TRUE,
   size |-> IF idx.size > IndexBytes(entries) THEN idx.size ELSE IndexBytes(entries),
   entries |-> entries]

\* write_index with no other process at the file: truncate and rewrite in
\* entry order.
write_index(entries) == close_index(open_index(NoFile), entries)

\* A filter that drops nothing.
entries_kept(entries, path) == entries

\* [e for e in entries if e.path != path]
entries_without(entries, path) ==
  LET keep(e) == e.path # path
  IN  SelectSeq(entries, keep)

\* A loop that passes over a missing path and goes on with the next one.
RECURSIVE add_loop_skipping(_, _, _, _, _)
add_loop_skipping(objs, entries, wtree, paths, st) ==
  IF paths = <<>> THEN [ok |-> TRUE, objects |-> objs, entries |-> entries]
  ELSE LET path == Head(paths)
       IN  IF path \notin DOMAIN wtree
           THEN add_loop_skipping(objs, entries, wtree, Tail(paths), st)
           ELSE LET w == write_object(objs, "blob", wtree[path])
                    kept == entries_without(entries, path)
                    e == IndexEntry(path, st[path].mode, st[path].mtime, w.sha)
                IN  add_loop_skipping(w.objects, Append(kept, e), wtree, Tail(paths), st)

\* The loop of cmd_add over the listed paths: os.stat raises for a missing
\* path (the blobs of the earlier paths are already written); otherwise the
\* blob is written and the path's entry replaced by a new last entry.
RECURSIVE add_loop(_, _, _, _, _)
add_loop(objs, entries, wtree, paths, st) ==
  IF paths = <<>> THEN [ok |-> TRUE, objects |-> objs, entries |-> entries]
  ELSE LET path == Head(paths)
       IN  IF path \notin DOMAIN wtree
           THEN [ok |-> FALSE, objects |-> objs, entries |-> entries]
           ELSE LET w == write_object(objs, "blob", wtree[path])
                    kept == entries_without(entries, path)
                    e == IndexEntry(path, st[path].mode, st[path].mtime, w.sha)
                IN  add_loop(w.objects, Append(kept, e), wtree, Tail(paths), st)

\* The index as a mapping path -> sha1 ({e.path: e.sha1 for e in read_index()}).
IndexMap(idx) ==
  LET es == read_index(idx)
      ps == {es[i].path : i \in DOMAIN es}
  IN  [p \in ps |->
         LET i == CHOOSE j \in DOMAIN es :
                    es[j].path = p /\ \A k \in DOMAIN es : es[k].path = p => k <= j
         IN  es[i].sha1]

-----------------------------------------------------------------------------
(* Tree builder and reader *)

\* Byte-wise ascending order of the names that occur in the paths.
SortedNames == <<"a", "b", "d", "f">>

NameRank(n) == CHOOSE i \in DOMAIN SortedNames : SortedNames[i] = n

\* sorted() over names: the (name, entry) tuples of one directory differ in
\* their names, so the order is the byte-wise order of the names.
RECURSIVE InsertSorted(_, _)
InsertSorted(n, s) ==
  IF s = <<>> THEN <<n>>
  ELSE IF NameRank(n) <= NameRank(Head(s)) THEN <<n>> \o s
  ELSE <<Head(s)>> \o InsertSorted(n, Tail(s))

RECURSIVE sorted(_)
sorted(s) == IF s = <<>> THEN <<>> ELSE InsertSorted(Head(s), sorted(Tail(s)))

\* tree_map: directory prefix -> the entries directly under it, in index order.
TreeMap(entries) ==
  LET keys == {Front(entries[i].path) : i \in DOMAIN entries}
  IN  [k \in keys |-> LET under(e) == Front(e.path) = k
                       IN  SelectSeq(entries, under)]

\* The children's names in the order the index lists them.
UnsortedChildren(tree_map, dir_path) ==
  LET children == IF dir_path \in DOMAIN tree_map THEN tree_map[dir_path] ELSE <<>>
  IN  [i \in DOMAIN children |-> Last(children[i].path)]

\* sorted(tree_map.get(dir_path, [])): the children's names in order.
SortedChildren(tree_map, dir_path) ==
  LET children == IF dir_path \in DOMAIN tree_map THEN tree_map[dir_path] ELSE <<>>
  IN  sorted([i \in DOMAIN children |-> Last(children[i].path)])

RECURSIVE build_tree(_, _, _)
RECURSIVE build_items(_, _, _, _)

\* The loop of build_tree over the sorted children still to serialize; log
\* lists the object files created so far, in the order of their creation.
build_items(objs, tree_map, dir_path, names) ==
  IF names = <<>> THEN [items |-> <<>>, objects |-> objs, log |-> <<>>]
  ELSE LET name == Head(names)
           children == tree_map[dir_path]
           entry == children[CHOOSE i \in DOMAIN children : Last(children[i].path) = name]
           full == Append(dir_path, name)
           sub == build_tree(objs, tree_map, full)
           item == IF full \in DOMAIN tree_map
                   THEN <<TreeMode, name, sub.sha>>
                   ELSE <<entry.mode, name, entry.sha1>>
           objs1 == IF full \in DOMAIN tree_map THEN sub.objects ELSE objs
           log1 == IF full \in DOMAIN tree_map THEN sub.log ELSE <<>>
           rest == build_items(objs1, tree_map, dir_path, Tail(names))
       IN  [items |-> <<item>> \o rest.items, objects |-> rest.objects,
            log |-> log1 \o rest.log]

build_tree(objs, tree_map, dir_path) ==
  LET r == build_items(objs, tree_map, dir_path, SortedChildren(tree_map, dir_path))
      w == write_object(r.objects, "tree", r.items)
  IN  [sha |-> w.sha, objects |-> w.objects,
       log |-> r.log \o (IF w.sha \in DOMAIN r.objects THEN <<>> ELSE <<w.sha>>)]

\* write_tree: the SHA of the root tree, the store after the writes, and the
\* object files created.
write_tree(objs, idx) == build_tree(objs, TreeMap(read_index(idx)), <<>>)

\* read_tree raises when an object is missing or is not a tree.
RECURSIVE TreeReadable(_, _)
TreeReadable(objs, sha) ==
  /\ ObjectExists(objs, sha)
  /\ read_object(objs, sha).type = "tree"
  /\ LET data == read_object(objs, sha).raw
     IN  \A i \in DOMAIN data : data[i][1] = TreeMode => TreeReadable(objs, data[i][3])

RECURSIVE read_tree(_, _, _)
RECURSIVE read_items(_, _, _)

\* The while loop of read_tree over the items still to parse.
read_items(objs, data, prefix) ==
  IF data = <<>> THEN <<>>
  ELSE LET item == Head(data)
           path == Append(prefix, item[2])
           here == IF item[1] = TreeMode
                   THEN read_tree(objs, item[3], path)
                   ELSE (path :> item[3])
       IN  read_items(objs, Tail(data), prefix) @@ here

\* read_tree: the flat mapping path -> blob SHA.
read_tree(objs, sha, prefix) == read_items(objs, read_object(objs, sha).raw, prefix)

-----------------------------------------------------------------------------
(* Refs and HEAD *)

HeadAbsent == [exists |-> FALSE, symbolic |-> FALSE, name |-> "", sha |-> None]
\* "ref: refs/heads/<name>\n"
HeadSymbolic(name) == [exists |-> TRUE, symbolic |-> TRUE, name |-> name, sha |-> None]
\* "<sha>\n"
HeadDetached(sha) == [exists |-> TRUE, symbolic |-> FALSE, name |-> "", sha |-> sha]

\* A ref path that names master whatever the branch.
BranchRefMaster(name) == <<"refs", "heads", "master">>

BranchRef(name) == <<"refs", "heads", name>>

\* get_head_ref: the ref path after "ref: ", None when HEAD is absent or detached.
get_head_ref(head) ==
  IF head.exists /\ head.symbolic THEN BranchRef(head.name) ELSE None

\* read_ref with a ref path: the stripped content of .jacobgit/<ref>, None if absent.
read_ref_file(hds, tgs, ref) ==
  IF ref[2] = "heads"
  THEN (IF ref[3] \in DOMAIN hds THEN hds[ref[3]] ELSE None)
  ELSE (IF ref[3] \in DOMAIN tgs THEN tgs[ref[3]] ELSE None)

\* read_ref: with no ref, through HEAD's branch when symbolic, else HEAD's raw content.
read_ref(hds, tgs, head, ref) ==
  IF ref # None THEN read_ref_file(hds, tgs, ref)
  ELSE IF get_head_ref(head) # None THEN read_ref_file(hds, tgs, get_head_ref(head))
  ELSE IF head.exists /\ ~head.symbolic THEN head.sha
  ELSE None

\* get_HEAD_commit
get_HEAD_commit(hds, tgs, head) ==
  IF get_head_ref(head) # None
  THEN read_ref(hds, tgs, head, get_head_ref(head))
  ELSE read_ref(hds, tgs, head, None)

-----------------------------------------------------------------------------
(* Working-tree scanner *)

SortedPaths == <<<<"a">>, <<"b">>, <<"d", "f">>>>

\* The regular files under .jacobgit: the log file log_cmd appends to, the
\* index, HEAD, the ref files and the object files.
RepoFiles(d, idx, head, hds, tgs, objs) ==
  (IF "logs" \in d THEN {<<".jacobgit", "logs", "jacobgit.log">>} ELSE {})
  \cup (IF idx.exists THEN {<<".jacobgit", "index">>} ELSE {})
  \cup (IF head.exists THEN {<<".jacobgit", "HEAD">>} ELSE {})
  \cup {<<".jacobgit", "refs", "heads", n>> : n \in DOMAIN hds}
  \cup {<<".jacobgit", "refs", "tags", n>> : n \in DOMAIN tgs}
  \cup {<<".jacobgit", "objects", id>> : id \in DOMAIN objs}

\* Every regular file os.walk(repo) visits: the working files and the files
\* under .jacobgit.
WalkFiles(wtree, repo_files) == DOMAIN wtree \cup repo_files

\* A scanner that does not skip the repository's own directory.
get_working_files_noskip(wtree, repo_files) == WalkFiles(wtree, repo_files)

\* A scanner that skips the roots with a .git component only.
get_working_files_git_only(wtree, repo_files) ==
  {p \in WalkFiles(wtree, repo_files) : \A i \in 1..(Len(p) - 1) : p[i] # ".git"}

\* get_working_files: the walk, skipping roots with a .jacobgit or .git component.
get_working_files(wtree, repo_files) ==
  {p \in WalkFiles(wtree, repo_files) :
     \A i \in 1..(Len(p) - 1) : p[i] # ".jacobgit" /\ p[i] # ".git"}

\* sorted(files), over the working paths.
SortedWorkFiles(wtree, repo_files) ==
  LET member(p) == p \in get_working_files(wtree, repo_files)
  IN  SelectSeq(SortedPaths, member)

-----------------------------------------------------------------------------
(* Commits *)

\* A payload whose parent line names the commit's own tree.
CommitDataTreeParent(tree_sha, parent_sha, ts, message) ==
  <<<<"tree", tree_sha>>, <<"parent", tree_sha>>,
    <<"author", ts>>, <<"committer", ts>>, <<>>, <<message>>>>

\* The commit payload "\n".join(lines).
CommitData(tree_sha, parent_sha, ts, message) ==
  <<<<"tree", tree_sha>>>>
  \o (IF parent_sha # None THEN <<<<"parent", parent_sha>>>> ELSE <<>>)
  \o <<<<"author", ts>>, <<"committer", ts>>, <<>>, <<message>>>>

\* raw.split(b"\n\n", 1)[0]: the lines before the first blank line.
RECURSIVE Meta(_)
Meta(lines) ==
  IF lines = <<>> \/ Head(lines) = <<>> THEN <<>>
  ELSE <<Head(lines)>> \o Meta(Tail(lines))

\* The SHA of the first "parent " line of the meta block, None without one.
ParentOf(raw) ==
  LET meta == Meta(raw)
      hits == {i \in DOMAIN meta : Len(meta[i]) = 2 /\ meta[i][1] = "parent"}
  IN  IF hits = {} THEN None
      ELSE meta[CHOOSE i \in hits : \A j \in hits : i <= j][2]

\* raw.split(b"\n", 1)[0].split(b" ", 1)[1]: the SHA of the first line.
TreeOf(raw) == raw[1][2]

\* splitlines() of the message is empty exactly for the empty message.
MessageRejected(message) == message = ""

IsCommit(objs, sha) == ObjectExists(objs, sha) /\ read_object(objs, sha).type = "commit"

\* The walk of cmd_log: the SHAs printed; ok is FALSE when read_object raises.
RECURSIVE log_walk(_, _)
log_walk(objs, sha) ==
  IF sha = None THEN [ok |-> TRUE, printed |-> <<>>]
  ELSE IF ~ObjectExists(objs, sha) THEN [ok |-> FALSE, printed |-> <<>>]
  ELSE IF read_object(objs, sha).type # "commit" THEN [ok |-> TRUE, printed |-> <<>>]
  ELSE LET rest == log_walk(objs, ParentOf(read_object(objs, sha).raw))
       IN  [ok |-> rest.ok, printed |-> <<sha>> \o rest.printed]

-----------------------------------------------------------------------------
(* Command wrappers *)

\* require_repo: .jacobgit must exist, else "fatal: not a jacobgit repository", exit 1.
IsRepo(d) == ".jacobgit" \in d

\* log_cmd: os.makedirs(<repo>/.jacobgit/logs) and the log file, before the command runs.
Logged(d) == d \cup {".jacobgit", "logs"}

\* The files under .jacobgit as a command under log_cmd finds them.
Repo == RepoFiles(Logged(dirs), index, HEAD, heads, tags, objects)

Result(cmd, exit, params, result) ==
  [cmd |-> cmd, exit |-> exit, params |-> params, result |-> result]

\* A command stopped by require_repo: exit 1, nothing written.
NotARepository(cmd, params) ==
  /\ out' = Result(cmd, 1, params, <<>>)
  /\ UNCHANGED <<dirs, HEAD, heads, tags, objects, index, wt, made>>

-----------------------------------------------------------------------------
(* The user's edits of the working directory *)

WriteFile(p, c) ==
  /\ wt' = (p :> c) @@ wt
  /\ out' = Result("edit", 0, <<>>, <<>>)
  /\ UNCHANGED <<dirs, HEAD, heads, tags, objects, index, made>>

RemoveFile(p) ==
  /\ p \in DOMAIN wt
  /\ wt' = Restrict(wt, DOMAIN wt \ {p})
  /\ out' = Result("edit", 0, <<>>, <<>>)
  /\ UNCHANGED <<dirs, HEAD, heads, tags, objects, index, made>>

-----------------------------------------------------------------------------
(* Commands *)

\* cmd_init under log_cmd: the wrapper creates .jacobgit/logs first, then
\* cmd_init returns early when .jacobgit exists, else writes the skeleton.
CmdInit ==
  LET logged == Logged(dirs)
  IN  /\ out' = Result("init", 0, <<>>, <<>>)
      /\ IF IsRepo(logged)
         THEN /\ dirs' = logged
              /\ UNCHANGED <<HEAD, heads>>
         ELSE /\ dirs' = logged \cup {"objects", "heads"}
              /\ HEAD' = HeadSymbolic("master")
              /\ heads' = ("master" :> None) @@ heads
      /\ UNCHANGED <<tags, objects, index, wt, made>>

\* cmd_add under require_repo and log_cmd.
CmdAdd(paths, st) ==
  IF ~IsRepo(dirs) THEN NotARepository("add", paths)
  ELSE IF index_invalid(index)
  THEN /\ dirs' = Logged(dirs)
       /\ out' = Result("add", 1, paths, <<>>)
       /\ UNCHANGED <<HEAD, heads, tags, objects, index, wt, made>>
  ELSE LET r == add_loop(objects, read_index(index), wt, paths, st)
       IN  /\ dirs' = Logged(dirs) \cup (IF Head(paths) \in DOMAIN wt THEN {"objects"} ELSE {})
           /\ objects' = r.objects
           /\ index' = IF r.ok THEN write_index(r.entries) ELSE index
           /\ out' = Result("add", IF r.ok THEN 0 ELSE 1, paths, <<>>)
           /\ UNCHANGED <<HEAD, heads, tags, wt, made>>

\* The write-tree command: write_tree() is called undecorated.
CmdWriteTree ==
  IF index_invalid(index)
  THEN /\ out' = Result("write-tree", 1, <<>>, <<>>)
       /\ UNCHANGED <<dirs, HEAD, heads, tags, objects, index, wt, made>>
  ELSE
  LET r == write_tree(objects, index)
  IN  /\ dirs' = dirs \cup {".jacobgit", "objects"}
      /\ objects' = r.objects
      /\ out' = Result("write-tree", 0, <<>>, <<r.sha>>)
      /\ UNCHANGED <<HEAD, heads, tags, index, wt, made>>

\* cmd_commit under require_repo, log_cmd and validate_commit_message.
CmdCommit(message, ts) ==
  IF ~IsRepo(dirs) THEN NotARepository("commit", <<<<message>>>>)
  ELSE IF MessageRejected(message) \/ index_invalid(index)
  THEN /\ dirs' = Logged(dirs)
       /\ out' = Result("commit", 1, <<<<message>>>>, <<>>)
       /\ UNCHANGED <<HEAD, heads, tags, objects, index, wt, made>>
  ELSE LET t == write_tree(objects, index)
           head_ref == IF get_head_ref(HEAD) # None THEN get_head_ref(HEAD)
                       ELSE BranchRef("master")
           parent_sha == read_ref(heads, tags, HEAD, head_ref)
           c == write_object(t.objects, "commit", CommitData(t.sha, parent_sha, ts, message))
       IN  /\ dirs' = Logged(dirs) \cup {"objects", "heads"}
           /\ objects' = c.objects
           /\ heads' = (head_ref[3] :> c.sha) @@ heads
           /\ made' = Append(made, c.sha)
           /\ out' = Result("commit", 0, <<<<message>>>>, <<c.sha>>)
           /\ UNCHANGED <<HEAD, tags, index, wt>>

\* cmd_log under require_repo and log_cmd.
CmdLog ==
  IF ~IsRepo(dirs) THEN NotARepository("log", <<>>)
  ELSE LET head_ref == get_head_ref(HEAD)
           sha == IF head_ref # None THEN read_ref(heads, tags, HEAD, head_ref)
                  ELSE read_ref(heads, tags, HEAD, None)
           r == log_walk(objects, sha)
       IN  /\ dirs' = Logged(dirs)
           /\ out' = Result("log", IF r.ok THEN 0 ELSE 1, <<>>, r.printed)
           /\ UNCHANGED <<HEAD, heads, tags, objects, index, wt, made>>

PathRank(p) == CHOOSE i \in DOMAIN SortedPaths : SortedPaths[i] = p

\* A resolution that falls back to master's tip for a target that is no branch.
resolve_or_master(hds, target) ==
  IF Len(target) = 1 /\ target[1] \in DOMAIN hds THEN hds[target[1]]
  ELSE IF "master" \in DOMAIN hds THEN hds["master"]
  ELSE target

\* Step 1 of cmd_checkout: the content of refs/heads/<target> when that file
\* exists, else the target itself.
resolve_target(hds, target) ==
  IF Len(target) = 1 /\ target[1] \in DOMAIN hds THEN hds[target[1]] ELSE target

\* A removal loop that deletes nothing.
stale_none(work_files, file_map) == {}

\* Step 4 of cmd_checkout: the working files that are not in the new tree.
stale_paths(work_files, file_map) == {p \in work_files : p \notin DOMAIN file_map}

\* The object files after os.remove of the paths in removed.
ObjectsLeft(objs, removed) ==
  IF \A id \in DOMAIN objs : <<".jacobgit", "objects", id>> \notin removed THEN objs
  ELSE Restrict(objs, {id \in DOMAIN objs : <<".jacobgit", "objects", id>> \notin removed})

\* The body of cmd_checkout.  A target is a branch name <<name>> or any other
\* string, here an object id.  Returns the exit code and the files after it.
checkout(repo_files, objs, hds, head, wtree, target) ==
  LET is_branch == Len(target) = 1 /\ target[1] \in DOMAIN hds
      commit_sha == resolve_target(hds, target)
      new_head == IF is_branch THEN HeadSymbolic(target[1]) ELSE HeadDetached(target)
      valid == /\ IsCommit(objs, commit_sha)
               /\ TreeReadable(objs, TreeOf(read_object(objs, commit_sha).raw))
      file_map == read_tree(objs, TreeOf(read_object(objs, commit_sha).raw), <<>>)
      removed == stale_paths(get_working_files(wtree, repo_files), file_map)
      \* step 5 reads the objects step 4 has left
      left == ObjectsLeft(objs, removed)
      \* blobs are written in the order of the map; a missing blob stops the loop
      written == {p \in DOMAIN file_map :
                    \A q \in DOMAIN file_map :
                       PathRank(q) <= PathRank(p) => ObjectExists(left, file_map[q])}
      complete == written = DOMAIN file_map
  IN  IF ~valid
      THEN [exit |-> 1, wt |-> wtree, objects |-> objs, HEAD |-> head, removed |-> {}]
      ELSE [exit |-> IF complete THEN 0 ELSE 1,
            wt |-> [p \in ((DOMAIN wtree \ removed) \cup written) |->
                      IF p \in written THEN read_object(left, file_map[p]).raw
                      ELSE wtree[p]],
            objects |-> left,
            HEAD |-> IF complete THEN new_head
                     ELSE IF <<".jacobgit", "HEAD">> \in removed THEN HeadAbsent
                     ELSE head,
            removed |-> removed]

\* The files of a directory of refs after os.remove of the paths in removed.
Unlinked(refs, dir, removed) ==
  IF \A n \in DOMAIN refs : <<".jacobgit", "refs", dir, n>> \notin removed THEN refs
  ELSE Restrict(refs, {n \in DOMAIN refs : <<".jacobgit", "refs", dir, n>> \notin removed})

\* cmd_checkout under require_repo and log_cmd.
CmdCheckout(target) ==
  IF ~IsRepo(dirs) THEN NotARepository("checkout", <<target>>)
  ELSE LET r == checkout(Repo, objects, heads, HEAD, wt, target)
       IN  /\ dirs' = Logged(dirs)
           /\ wt' = r.wt
           /\ objects' = r.objects
           /\ HEAD' = r.HEAD
           /\ heads' = Unlinked(heads, "heads", r.removed)
           /\ tags' = Unlinked(tags, "tags", r.removed)
           /\ index' = IF <<".jacobgit", "index">> \in r.removed THEN NoFile ELSE index
           /\ out' = Result("checkout", r.exit, <<target>>, <<>>)
           /\ UNCHANGED made

SortedBranchNames == <<"master", "ster">>
SortedTagNames == <<"v1">>

\* A guard that refuses nothing.
DeleteAllowed(current, name) == FALSE

\* The 40 hex digits of an object id, each kept as the id and its position.
HexDigits(id) == [i \in 1..40 |-> <<id, i>>]

\* The characters of a command-line name: one string, or the objects prefix
\* followed by an object id.
ArgChars(name) ==
  IF Len(name) = 1 THEN Chars(name[1]) ELSE Chars(name[1]) \o HexDigits(name[2])

\* The deletion guard of cmd_branch: current and current.endswith(name).
DeleteRefused(current, name) ==
  current # None /\ EndsWith(JoinSlash(current), ArgChars(name))

\* os.path.join(heads_dir, name): the file the name leads to.  A leading
\* "./" stays in refs/heads, "../" leads to refs and "../../" to .jacobgit;
\* any other name is a file of refs/heads.
RefFile(name) ==
  IF Len(name) = 2 /\ name[1] = ObjectsPrefix THEN <<".jacobgit", "objects", name[2]>>
  ELSE CASE name[1] = "./master"    -> <<".jacobgit", "refs", "heads", "master">>
         [] name[1] = "../tags/v1"  -> <<".jacobgit", "refs", "tags", "v1">>
         [] name[1] = "../../index" -> <<".jacobgit", "index">>
         [] name[1] = "../../HEAD"  -> <<".jacobgit", "HEAD">>
         [] OTHER                   -> <<".jacobgit", "refs", "heads", name[1]>>

\* open(path, 'w') of a new file: cmd_branch creates refs/heads, and no
\* command creates a directory below a directory of refs, so a file of refs
\* can be opened exactly when its directory exists and its name has no
\* directory part.
ParentDirExists(d, path) ==
  IF Len(path) = 4
  THEN /\ path[3] \in d
       /\ \A i \in DOMAIN Chars(path[4]) : Chars(path[4])[i] # "/"
  ELSE IF Len(path) = 3 THEN path[2] \in d
  ELSE TRUE

\* cmd_branch under require_repo and log_cmd.  args is the argument list,
\* each argument the sequence of its pieces (one string, but for the name of
\* an object file).  The names are not validated: -d removes whatever file
\* the name leads to, and a new name is written wherever it leads; a new
\* file outside refs is left out.
CmdBranch(args) ==
  IF ~IsRepo(dirs) THEN NotARepository("branch", args)
  ELSE /\ dirs' = Logged(dirs) \cup {"heads"}
       /\ UNCHANGED <<wt, made>>
       /\ IF Len(args) = 2 /\ args[1] = <<"-d">>
          THEN LET name == args[2]
                   path == RefFile(name)
               IN  IF path \notin Repo
                   THEN /\ out' = Result("branch", 1, args, <<>>)
                        /\ UNCHANGED <<HEAD, heads, tags, objects, index>>
                   ELSE IF DeleteRefused(get_head_ref(HEAD), name)
                   THEN /\ out' = Result("branch", 1, args, <<>>)
                        /\ UNCHANGED <<HEAD, heads, tags, objects, index>>
                   ELSE /\ heads' = Unlinked(heads, "heads", {path})
                        /\ tags' = Unlinked(tags, "tags", {path})
                        /\ objects' = ObjectsLeft(objects, {path})
                        /\ index' = IF path = <<".jacobgit", "index">> THEN NoFile ELSE index
                        /\ HEAD' = IF path = <<".jacobgit", "HEAD">> THEN HeadAbsent ELSE HEAD
                        /\ out' = Result("branch", 0, args, <<>>)
          ELSE IF Len(args) = 1 /\ args[1] # <<"-d">>
          THEN LET name == args[1]
                   path == RefFile(name)
                   commit_sha == get_HEAD_commit(heads, tags, HEAD)
               IN  IF path \in Repo
                   THEN /\ out' = Result("branch", 1, args, <<>>)
                        /\ UNCHANGED <<HEAD, heads, tags, objects, index>>
                   ELSE IF commit_sha = None
                   THEN /\ out' = Result("branch", 1, args, <<>>)
                        /\ UNCHANGED <<HEAD, heads, tags, objects, index>>
                   ELSE IF ~ParentDirExists(Logged(dirs) \cup {"heads"}, path)
                   THEN /\ out' = Result("branch", 1, args, <<>>)
                        /\ UNCHANGED <<HEAD, heads, tags, objects, index>>
                   ELSE /\ Len(path) = 4
                        /\ heads' = IF path[3] = "heads"
                                     THEN (path[4] :> commit_sha) @@ heads ELSE heads
                        /\ tags' = IF path[3] = "tags"
                                    THEN (path[4] :> commit_sha) @@ tags ELSE tags
                        /\ out' = Result("branch", 0, args, <<>>)
                        /\ UNCHANGED <<HEAD, objects, index>>
          ELSE IF args = <<>>
          THEN LET current == IF get_head_ref(HEAD) # None
                              THEN Last(get_head_ref(HEAD)) ELSE ""
                   member(n) == n \in DOMAIN heads
                   names == SelectSeq(SortedBranchNames, member)
               IN  /\ out' = Result("branch", 0, args,
                                [i \in DOMAIN names |->
                                   <<IF names[i] = current THEN "* " ELSE "  ", names[i]>>])
                   /\ UNCHANGED <<HEAD, heads, tags, objects, index>>
          ELSE /\ out' = Result("branch", 1, args, <<>>)
               /\ UNCHANGED <<HEAD, heads, tags, objects, index>>

\* cmd_tag under require_repo and log_cmd.
CmdTag(args) ==
  IF ~IsRepo(dirs) THEN NotARepository("tag", args)
  ELSE /\ dirs' = Logged(dirs) \cup {"tags"}
       /\ UNCHANGED <<HEAD, heads, objects, index, wt, made>>
       /\ IF args = <<>> \/ (Len(args) = 1 /\ args[1] = <<"-l">>)
          THEN LET member(n) == n \in DOMAIN tags
                   names == SelectSeq(SortedTagNames, member)
               IN  /\ out' = Result("tag", 0, args,
                                [i \in DOMAIN names |-> <<names[i], tags[names[i]]>>])
                   /\ UNCHANGED tags
          ELSE IF Len(args) = 1
          THEN LET name == args[1][1]
                   commit_sha == get_HEAD_commit(heads, tags, HEAD)
               IN  IF name \in DOMAIN tags
                   THEN /\ out' = Result("tag", 1, args, <<>>)
                        /\ UNCHANGED tags
                   ELSE IF commit_sha = None
                   THEN /\ out' = Result("tag", 1, args, <<>>)
                        /\ UNCHANGED tags
                   ELSE /\ tags' = (name :> commit_sha) @@ tags
                        /\ out' = Result("tag", 0, args, <<>>)
          ELSE /\ out' = Result("tag", 1, args, <<>>)
               /\ UNCHANGED tags

\* The HEAD tree of cmd_status and cmd_diff: head_sha is read through the
\* branch when HEAD is symbolic and is None otherwise; ok is FALSE when
\* read_object or read_tree raises.
HeadTree(objs, hds, tgs, head) ==
  LET head_ref == get_head_ref(head)
      head_sha == IF head_ref # None THEN read_ref(hds, tgs, head, head_ref) ELSE None
      obj_type == IF head_sha # None /\ ObjectExists(objs, head_sha)
                  THEN read_object(objs, head_sha).type ELSE "None"
      tree_sha == IF obj_type = "commit" THEN TreeOf(read_object(objs, head_sha).raw)
                  ELSE IF obj_type = "tree" THEN head_sha ELSE None
  IN  IF head_sha # None /\ ~ObjectExists(objs, head_sha) THEN [ok |-> FALSE, tree |-> <<>>]
      ELSE IF tree_sha = None THEN [ok |-> TRUE, tree |-> <<>>]
      ELSE IF ~TreeReadable(objs, tree_sha) THEN [ok |-> FALSE, tree |-> <<>>]
      ELSE [ok |-> TRUE, tree |-> read_tree(objs, tree_sha, <<>>)]

\* A classification that reports every working file as untracked.
ClassifyUntracked(idx, head_tree, wtree, repo_files) ==
  <<<<>>, <<>>, SortedWorkFiles(wtree, repo_files)>>

\* The classification loop of cmd_status: <<staged, modified, untracked>>.
Classify(idx, head_tree, wtree, repo_files) ==
  LET imap == IndexMap(idx)
      work_files == SortedWorkFiles(wtree, repo_files)
      staged(p) == /\ p \in DOMAIN imap
                   /\ (p \notin DOMAIN head_tree \/ imap[p] # head_tree[p])
      modified(p) == p \in DOMAIN imap /\ hash_blob(wtree[p]) # imap[p]
      untracked(p) == p \notin DOMAIN imap
  IN  <<SelectSeq(work_files, staged), SelectSeq(work_files, modified),
        SelectSeq(work_files, untracked)>>

\* cmd_status under require_repo and log_cmd.
CmdStatus ==
  IF ~IsRepo(dirs) THEN NotARepository("status", <<>>)
  ELSE LET h == HeadTree(objects, heads, tags, HEAD)
       IN  /\ dirs' = Logged(dirs)
           /\ out' = IF h.ok /\ ~index_invalid(index)
                     THEN Result("status", 0, <<>>, Classify(index, h.tree, wt, Repo))
                     ELSE Result("status", 1, <<>>, <<>>)
           /\ UNCHANGED <<HEAD, heads, tags, objects, index, wt, made>>

\* splitlines() of a file's text (the contents here hold no line break).
SplitLines(data) == IF data = "" THEN <<>> ELSE <<data>>

\* The HEAD tree of cmd_diff: the commit HEAD's branch names is read in both
\* modes, its tree only for a staged diff; ok is FALSE when read_object or
\* read_tree raises.
DiffHeadTree(staged, objs, hds, tgs, head) ==
  LET head_ref == get_head_ref(head)
      head_sha == IF head_ref # None THEN read_ref(hds, tgs, head, head_ref) ELSE None
      obj_type == IF head_sha # None /\ ObjectExists(objs, head_sha)
                  THEN read_object(objs, head_sha).type ELSE "None"
      tree_sha == IF obj_type = "commit" THEN TreeOf(read_object(objs, head_sha).raw)
                  ELSE IF obj_type = "tree" THEN head_sha ELSE None
  IN  IF head_sha # None /\ ~ObjectExists(objs, head_sha) THEN [ok |-> FALSE, tree |-> <<>>]
      ELSE IF ~staged \/ tree_sha = None THEN [ok |-> TRUE, tree |-> <<>>]
      ELSE IF ~TreeReadable(objs, tree_sha) THEN [ok |-> FALSE, tree |-> <<>>]
      ELSE [ok |-> TRUE, tree |-> read_tree(objs, tree_sha, <<>>)]

\* cmd_diff under require_repo and log_cmd: the paths a diff is printed for.
\* The blobs of both sides of a compared path are read; a missing one raises.
CmdDiff(staged) ==
  IF ~IsRepo(dirs) THEN NotARepository("diff", <<<<staged>>>>)
  ELSE LET h == DiffHeadTree(staged, objects, heads, tags, HEAD)
           imap == IndexMap(index)
           es == read_index(index)
           work_files == SortedWorkFiles(wt, Repo)
           sdiff(e) == /\ e.path \in DOMAIN h.tree
                       /\ h.tree[e.path] # e.sha1
           tracked(p) == p \in DOMAIN imap
           wdiff(p) == /\ p \in DOMAIN imap
                       /\ SplitLines(read_object(objects, imap[p]).raw) # SplitLines(wt[p])
           compared == SelectSeq(es, sdiff)
           blobs_read == IF staged
                         THEN \A i \in DOMAIN compared :
                                /\ ObjectExists(objects, h.tree[compared[i].path])
                                /\ ObjectExists(objects, compared[i].sha1)
                         ELSE \A i \in DOMAIN SelectSeq(work_files, tracked) :
                                ObjectExists(objects, imap[SelectSeq(work_files, tracked)[i]])
           diffs == IF staged
                    THEN [i \in DOMAIN compared |-> compared[i].path]
                    ELSE SelectSeq(work_files, wdiff)
       IN  /\ dirs' = Logged(dirs)
           /\ out' = IF ~index_invalid(index) /\ h.ok /\ blobs_read
                     THEN Result("diff", 0, <<<<staged>>>>, diffs)
                     ELSE Result("diff", 1, <<<<staged>>>>, <<>>)
           /\ UNCHANGED <<HEAD, heads, tags, objects, index, wt, made>>

-----------------------------------------------------------------------------
(* The file writes of one invocation, one at a time *)

FileWrite(file, id, bytes) == [file |-> file, id |-> id, bytes |-> bytes]

\* An order that writes the ref before the objects.
ref_first(tree_writes, commit_write, ref_write) ==
  ref_write \o tree_writes \o commit_write

\* The order of cmd_commit's statements: write_tree(), then write_object of
\* the commit, then the write of the ref file.
commit_order(tree_writes, commit_write, ref_write) ==
  tree_writes \o commit_write \o ref_write

\* The files a cmd_commit that passes its checks creates, in order, and the
\* SHA it prints.
commit_writes(objs, idx, hds, tgs, head, message, ts) ==
  LET t == write_tree(objs, idx)
      head_ref == IF get_head_ref(head) # None THEN get_head_ref(head)
                  ELSE BranchRef("master")
      parent_sha == read_ref(hds, tgs, head, head_ref)
      c == write_object(t.objects, "commit", CommitData(t.sha, parent_sha, ts, message))
  IN  [sha |-> c.sha,
       writes |-> commit_order(
         [i \in DOMAIN t.log |-> FileWrite("object", t.log[i], t.objects[t.log[i]])],
         IF c.sha \in DOMAIN t.objects THEN <<>>
         ELSE <<FileWrite("object", c.sha, c.objects[c.sha])>>,
         <<FileWrite("ref", head_ref[3], c.sha)>>)]

\* The files a cmd_checkout that passes its checks removes and writes, in
\* order: the stale working files, the files of the tree, then HEAD.
checkout_writes(repo_files, objs, hds, head, wtree, target) ==
  LET is_branch == Len(target) = 1 /\ target[1] \in DOMAIN hds
      commit_sha == resolve_target(hds, target)
      new_head == IF is_branch THEN HeadSymbolic(target[1]) ELSE HeadDetached(target)
      file_map == read_tree(objs, TreeOf(read_object(objs, commit_sha).raw), <<>>)
      stale(p) == p \in stale_paths(get_working_files(wtree, repo_files), file_map)
      restored(p) == p \in DOMAIN file_map
      removals == SelectSeq(SortedPaths, stale)
      restores == SelectSeq(SortedPaths, restored)
  IN  [i \in DOMAIN removals |-> FileWrite("remove", removals[i], <<>>)]
      \o [i \in DOMAIN restores |->
            FileWrite("work", restores[i], read_object(objs, file_map[restores[i]]).raw)]
      \o <<FileWrite("HEAD", <<>>, new_head)>>

\* An invocation is between two of its file writes: out holds the writes
\* still to do, and the result the invocation ends with.
Running == out.cmd = "running"

\* cmd_commit up to its first file write.
BeginCommit(message, ts) ==
  /\ IsRepo(dirs)
  /\ ~MessageRejected(message)
  /\ ~index_invalid(index)
  /\ LET w == commit_writes(objects, index, heads, tags, HEAD, message, ts)
     IN  out' = Result("running", 0,
                       <<Result("commit", 0, <<<<message>>>>, <<w.sha>>)>>, w.writes)
  /\ dirs' = Logged(dirs)
  /\ UNCHANGED <<HEAD, heads, tags, objects, index, wt, made>>

\* cmd_checkout up to its first file write.
BeginCheckout(target) ==
  /\ IsRepo(dirs)
  /\ checkout(Repo, objects, heads, HEAD, wt, target).exit = 0
  /\ out' = Result("running", 0,
                   <<Result("checkout", 0, <<target>>, <<>>)>>,
                   checkout_writes(Repo, objects, heads, HEAD, wt, target))
  /\ dirs' = Logged(dirs)
  /\ UNCHANGED <<HEAD, heads, tags, objects, index, wt, made>>

\* The next file write of the running invocation; after the last one the
\* invocation returns.
StepWrite ==
  /\ Running
  /\ LET w == Head(out.result)
         done == out.params[1]
     IN  /\ objects' = IF w.file = "object" THEN (w.id :> w.bytes) @@ objects ELSE objects
         /\ heads' = IF w.file = "ref" THEN (w.id :> w.bytes) @@ heads ELSE heads
         /\ wt' = IF w.file = "remove" THEN Restrict(wt, DOMAIN wt \ {w.id})
                  ELSE IF w.file = "work" THEN (w.id :> w.bytes) @@ wt
                  ELSE wt
         /\ HEAD' = IF w.file = "HEAD" THEN w.bytes ELSE HEAD
         /\ dirs' = dirs \cup (IF w.file = "object" THEN {"objects"}
                                ELSE IF w.file = "ref" THEN {"heads"} ELSE {})
         /\ IF Len(out.result) = 1
            THEN /\ out' = done
                 /\ made' = IF done.cmd = "commit" THEN Append(made, done.result[1])
                            ELSE made
            ELSE /\ out' = [out EXCEPT !.result = Tail(@)]
                 /\ made' = made
  /\ UNCHANGED <<tags, index>>

-----------------------------------------------------------------------------
(* Two add invocations at once, each with one path *)

\* A cmd_add process: the statement it is about to run (read_index, the loop
\* body, the open of write_index, the end of its with block), its local list
\* of entries, and the times of its read and of its write of the index file.
AddProc(path, pc, entries, read_at, wrote_at) ==
  [path |-> path, pc |-> pc, entries |-> entries,
   read_at |-> read_at, wrote_at |-> wrote_at]

\* Two add processes are running: out holds both, the count of their steps,
\* and the entries the index held when they started.
Racing ==
  /\ out.cmd = "add-race"
  /\ \E i \in 1..2 : out.result[i].pc \notin {"done", "failed"}

\* Both processes pass require_repo and log_cmd.
BeginAdds(p1, p2) ==
  /\ IsRepo(dirs)
  /\ p1 # p2
  /\ out' = Result("add-race", 0, <<p1, p2>>,
                   <<AddProc(p1, "read", <<>>, 0, 0), AddProc(p2, "read", <<>>, 0, 0),
                     0, read_index(index)>>)
  /\ dirs' = Logged(dirs)
  /\ UNCHANGED <<HEAD, heads, tags, objects, index, wt, made>>

\* The next statement of process i.  write_index is two steps: the open
\* empties the file, and the bytes reach it when the with block ends; a
\* read_index in between finds no header, and the process exits 1.
AddStep(i, st) ==
  /\ out.cmd = "add-race"
  /\ out.result[i].pc \in {"read", "blob", "open", "close"}
  /\ LET me == out.result[i]
         clock == out.result[3] + 1
         r == add_loop(objects, me.entries, wt, <<me.path>>, st)
         next == IF me.pc = "read"
                 THEN IF index_invalid(index)
                      THEN [me EXCEPT !.pc = "failed", !.read_at = clock]
                      ELSE [me EXCEPT !.pc = "blob", !.entries = read_index(index),
                                      !.read_at = clock]
                 ELSE IF me.pc = "blob"
                 THEN [me EXCEPT !.pc = IF r.ok THEN "open" ELSE "failed",
                                 !.entries = r.entries]
                 ELSE IF me.pc = "open"
                 THEN [me EXCEPT !.pc = "close"]
                 ELSE [me EXCEPT !.pc = "done", !.wrote_at = clock]
     IN  /\ objects' = IF me.pc = "blob" THEN r.objects ELSE objects
         /\ index' = IF me.pc = "open" THEN open_index(index)
                     ELSE IF me.pc = "close" THEN close_index(index, me.entries)
                     ELSE index
         /\ dirs' = dirs \cup (IF me.pc = "blob" /\ r.ok THEN {"objects"} ELSE {})
         /\ out' = [out EXCEPT !.result = [@ EXCEPT ![i] = next, ![3] = clock]]
  /\ UNCHANGED <<HEAD, heads, tags, wt, made>>

-----------------------------------------------------------------------------
(* Inputs *)

AddArgs(P) == SeqsUpTo(P, MaxAddArgs) \ {<<>>}
StatResults == [Paths \cup TreePaths -> [mode : StatModes, mtime : StatMtimes]]
BranchArgs ==
  {<<>>, <<<<"-d">>>>}
  \cup {<<<<n>>>> : n \in BranchNames}
  \cup {<<<<"-d">>, <<n>>>> : n \in BranchNames}
TagArgs == {<<>>, <<<<"-l">>>>} \cup {<<<<n>>>> : n \in TagNames}
\* The branch arguments, the creation of a branch below a directory, and
\* the deletion of a branch under another spelling of its file.
RefsBranchArgs ==
  BranchArgs \cup {<<<<n>>>> : n \in NestedBranchNames}
  \cup {<<<<"-d">>, <<n>>>> : n \in AliasBranchNames}
\* The branch arguments and the deletions and creations under names that
\* lead out of refs/heads.
UnlinkBranchArgs ==
  BranchArgs
  \cup {<<<<"-d">>, <<n>>>> : n \in OutsideNames}
  \cup {<<<<"-d">>, <<ObjectsPrefix, id>>>> : id \in DOMAIN objects}
  \cup {<<<<"../tags/v1">>>>}
CommitIds == {id \in DOMAIN objects : objects[id][1] = "commit"}
\* Branch names, the commits stored, and two ids that name a blob or a tree
\* once written and no object before.
CheckoutTargets ==
  {<<n>> : n \in BranchNames} \cup CommitIds
  \cup {hash_blob("1"), Sha1(<<"tree", <<>>>>)}

SmallPaths == {<<"a">>}
SmallContents == {"1"}

-----------------------------------------------------------------------------
(* Specifications *)

Init ==
  /\ dirs = {}
  /\ HEAD = HeadAbsent
  /\ heads = <<>>
  /\ tags = <<>>
  /\ objects = <<>>
  /\ index = NoFile
  /\ wt = <<>>
  /\ made = <<>>
  /\ out = Result("none", 0, <<>>, <<>>)

\* Every command, over one path and one content.
Next ==
  \/ \E p \in SmallPaths, c \in SmallContents : WriteFile(p, c)
  \/ \E p \in SmallPaths : RemoveFile(p)
  \/ CmdInit
  \/ \E paths \in AddArgs(SmallPaths), st \in StatResults : CmdAdd(paths, st)
  \/ CmdWriteTree
  \/ \E m \in Messages, ts \in Times : Len(made) < MaxCommits /\ CmdCommit(m, ts)
  \/ CmdLog
  \/ \E t \in CheckoutTargets : CmdCheckout(t)
  \/ \E args \in BranchArgs : CmdBranch(args)
  \/ \E args \in TagArgs : CmdTag(args)
  \/ CmdStatus
  \/ \E s \in BOOLEAN : CmdDiff(s)

Spec == Init /\ [][Next]_vars

\* Staging: edits, init, add and write-tree over every path and content.
NextStage ==
  \/ \E p \in Paths, c \in Contents : WriteFile(p, c)
  \/ \E p \in Paths : RemoveFile(p)
  \/ CmdInit
  \/ \E paths \in AddArgs(Paths), st \in StatResults : CmdAdd(paths, st)
  \/ CmdWriteTree

SpecStage == Init /\ [][NextStage]_vars

\* A linear history: init, then edits, add, commit right after an add, and log.
NextChain ==
  \/ \E p \in SmallPaths, c \in Contents : WriteFile(p, c)
  \/ CmdInit
  \/ \E paths \in AddArgs(SmallPaths), st \in StatResults : CmdAdd(paths, st)
  \/ \E m \in Messages, ts \in Times :
        /\ out.cmd = "add" /\ out.exit = 0
        /\ Len(made) < MaxChain
        /\ CmdCommit(m, ts)
  \/ CmdLog

SpecChain == Init /\ [][NextChain]_vars

\* Snapshots and their restoration: edits, init, add, commit and checkout;
\* the file in the subdirectory takes one content, the top-level file both.
NextCheckout ==
  \/ \E p \in Paths, c \in Contents :
        (p \in SmallPaths \/ c \in SmallContents) /\ WriteFile(p, c)
  \/ \E p \in Paths : RemoveFile(p)
  \/ CmdInit
  \/ \E paths \in AddArgs(Paths), st \in StatResults : CmdAdd(paths, st)
  \/ \E m \in Messages, ts \in Times : Len(made) < MaxChain /\ CmdCommit(m, ts)
  \/ \E t \in CheckoutTargets : CmdCheckout(t)

SpecCheckout == Init /\ [][NextCheckout]_vars

\* The commands that read and write HEAD and the refs, on an empty index.
NextRefs ==
  \/ CmdInit
  \/ \E m \in Messages, ts \in Times : Len(made) < MaxChain /\ CmdCommit(m, ts)
  \/ \E t \in CheckoutTargets : CmdCheckout(t)
  \/ \E args \in RefsBranchArgs : CmdBranch(args)
  \/ \E args \in TagArgs : CmdTag(args)
  \/ CmdLog

SpecRefs == Init /\ [][NextRefs]_vars

\* Commits on branches: edits, init, add, commit, checkout of a branch, and
\* the creation of branches and tags.
NextBranches ==
  \/ \E p \in SmallPaths, c \in SmallContents : WriteFile(p, c)
  \/ CmdInit
  \/ \E paths \in AddArgs(SmallPaths), st \in StatResults : CmdAdd(paths, st)
  \/ \E m \in Messages, ts \in Times : Len(made) < MaxChain /\ CmdCommit(m, ts)
  \/ \E n \in BranchNames : CmdCheckout(<<n>>)
  \/ \E n \in BranchNames : CmdBranch(<<<<n>>>>)
  \/ \E args \in TagArgs : CmdTag(args)

SpecBranches == Init /\ [][NextBranches]_vars

\* Two add invocations whose statements interleave, after edits, init and
\* single adds.
NextRace ==
  \/ \E p \in TreePaths, c \in SmallContents : ~Racing /\ WriteFile(p, c)
  \/ ~Racing /\ CmdInit
  \/ \E p \in TreePaths, st \in StatResults : ~Racing /\ CmdAdd(<<p>>, st)
  \/ \E p1, p2 \in TreePaths : ~Racing /\ BeginAdds(p1, p2)
  \/ \E i \in 1..2, st \in StatResults : AddStep(i, st)

SpecRace == Init /\ [][NextRace]_vars

\* Staging two files of one directory in either order, and write-tree.
NextTree ==
  \/ \E p \in TreePaths, c \in Contents : WriteFile(p, c)
  \/ CmdInit
  \/ \E paths \in AddArgs(TreePaths), st \in StatResults : CmdAdd(paths, st)
  \/ CmdWriteTree

SpecTree == Init /\ [][NextTree]_vars

\* Commit and checkout one file write at a time, the other commands whole;
\* one invocation runs at a time.  A commit or checkout that fails its checks
\* writes no file and is left out.
NextSteps ==
  \/ \E p \in SmallPaths, c \in SmallContents : ~Running /\ WriteFile(p, c)
  \/ ~Running /\ CmdInit
  \/ \E p \in SmallPaths, st \in StatResults : ~Running /\ CmdAdd(<<p>>, st)
  \/ \E m \in Messages, ts \in Times :
        ~Running /\ Len(made) < MaxChain /\ BeginCommit(m, ts)
  \/ \E t \in CheckoutTargets : ~Running /\ BeginCheckout(t)
  \/ StepWrite
  \/ \E args \in BranchArgs : ~Running /\ CmdBranch(args)
  \/ \E args \in TagArgs : ~Running /\ CmdTag(args)

SpecSteps == Init /\ [][NextSteps]_vars

\* A commit, tags and checkouts of master, with branch names that lead out
\* of refs/heads.
NextUnlink ==
  \/ \E p \in SmallPaths, c \in SmallContents : WriteFile(p, c)
  \/ CmdInit
  \/ \E p \in SmallPaths, st \in StatResults : CmdAdd(<<p>>, st)
  \/ \E m \in Messages, ts \in Times : Len(made) < MaxCommits /\ CmdCommit(m, ts)
  \/ CmdCheckout(<<"master">>)
  \/ \E args \in UnlinkBranchArgs : CmdBranch(args)
  \/ \E args \in TagArgs : CmdTag(args)
  \/ CmdLog

SpecUnlink == Init /\ [][NextUnlink]_vars

-----------------------------------------------------------------------------
(* Properties *)

IsDelete(o) == o.cmd = "branch" /\ Len(o.params) = 2 /\ o.params[1] = <<"-d">>
UniquePaths(es) == \A i, j \in DOMAIN es : es[i].path = es[j].path => i = j
EntriesOf(es, p) == {es[i] : i \in {j \in DOMAIN es : es[j].path = p}}

\* C1: init in a directory that has no .jacobgit creates the skeleton: HEAD
\* holds "ref: refs/heads/master\n", refs/heads/master exists and is empty,
\* and objects/ exists and is empty.
C1_InitCreatesSkeleton ==
  [][(out'.cmd = "init" /\ ~IsRepo(dirs)) =>
       /\ HEAD' = HeadSymbolic("master")
       /\ "master" \in DOMAIN heads'
       /\ heads'["master"] = None
       /\ "objects" \in dirs'
       /\ DOMAIN objects' = {}]_vars

\* C2: after init and N commits, each right after an add, log prints exactly
\* the N commits, newest first; the first commit has no parent and every
\* later commit's parent is the commit made just before it.
C2_LogPrintsChain ==
  (out.cmd = "log" /\ IsRepo(dirs)) =>
     /\ out.exit = 0
     /\ out.result = Reverse(made)
     /\ \A i \in DOMAIN made :
          ParentOf(read_object(objects, made[i]).raw) = (IF i = 1 THEN None ELSE made[i - 1])

\* C3: for every index, read_tree of the SHA write_tree returns is the mapping
\* of every index path to its blob SHA, and nothing else.
C3_ReadTreeInvertsWriteTree ==
  LET r == write_tree(objects, index)
  IN  read_tree(r.objects, r.sha, <<>>) = IndexMap(index)

\* The repository is at commit c: HEAD resolves to c (or, without a HEAD file,
\* c is the tip of master), the index builds c's tree, and every index path is
\* in the working tree with the content staged.
CleanAt(c) ==
  /\ \/ get_HEAD_commit(heads, tags, HEAD) = c
     \/ ~HEAD.exists /\ "master" \in DOMAIN heads /\ heads["master"] = c
  /\ TreeOf(read_object(objects, c).raw) = write_tree(objects, index).sha
  /\ \A p \in DOMAIN IndexMap(index) :
       p \in DOMAIN wt /\ hash_blob(wt[p]) = IndexMap(index)[p]

\* C4: from a repository clean at commit C1, checkout C0 followed by checkout
\* C1 leaves every file tracked at C1 in the working tree with its content at C1.
C4_CheckoutInverse ==
  \A c1 \in CommitIds :
    CleanAt(c1) =>
      \A c0 \in CommitIds :
        LET s1 == checkout(Repo, objects, heads, HEAD, wt, c0)
            s2 == checkout(RepoFiles(Logged(dirs), index, s1.HEAD, heads, tags, s1.objects),
                           s1.objects, heads, s1.HEAD, s1.wt, c1)
        IN  \A p \in DOMAIN IndexMap(index) : p \in DOMAIN s2.wt /\ s2.wt[p] = wt[p]

\* C5: with HEAD detached, a commit leaves every file under refs/heads as it
\* was and creates no branch file.
C5_DetachedCommitKeepsBranches ==
  [][(HEAD.exists /\ ~HEAD.symbolic /\ out'.cmd = "commit" /\ out'.exit = 0)
       => heads' = heads]_vars

\* C6: branch -d <name> fails exactly when refs/heads/<name> does not exist or
\* <name> is the branch HEAD points to; otherwise it removes that branch file.
C6_DeleteFailsExactlyWhen ==
  [][IsDelete(out') =>
       LET name == out'.params[2][1]
           absent == name \notin DOMAIN heads
           current == get_head_ref(HEAD) = BranchRef(name)
       IN  /\ (out'.exit # 0) <=> (absent \/ current)
           /\ (out'.exit = 0) => (heads' = Restrict(heads, DOMAIN heads \ {name}))]_vars

\* C7: whenever HEAD is symbolic to refs/heads/<name>, branch -d <name> exits
\* non-zero and the branch file still exists with the content it had.
C7_CurrentBranchKept ==
  [][(IsDelete(out') /\ HEAD.exists /\ HEAD.symbolic /\ HEAD.name = out'.params[2][1]) =>
       /\ out'.exit # 0
       /\ HEAD.name \in DOMAIN heads
       /\ HEAD.name \in DOMAIN heads'
       /\ heads'[HEAD.name] = heads[HEAD.name]]_vars

\* branch -d of the branch HEAD points to has just been refused.
C7_Witness ==
  /\ IsDelete(out) /\ out.exit = 1
  /\ HEAD.exists /\ HEAD.symbolic /\ HEAD.name = out.params[2][1]
  /\ HEAD.name \in DOMAIN heads

\* C8: after an add the index holds at most one entry per path; the entry of
\* each listed path carries the blob SHA of the file as just added, and the
\* entries of the other paths are the ones held before.
C8_AddKeepsOneEntryPerPath ==
  [][(out'.cmd = "add" /\ out'.exit = 0) =>
       LET es == read_index(index')
           listed == {out'.params[i] : i \in DOMAIN out'.params}
       IN  /\ UniquePaths(es)
           /\ \A p \in listed :
                \E i \in DOMAIN es : es[i].path = p /\ es[i].sha1 = hash_blob(wt[p])
           /\ \A p \in Paths \ listed : EntriesOf(es, p) = EntriesOf(read_index(index), p)]_vars

\* An add that listed one path twice has succeeded on an index that holds
\* another path too, and the path's entry differs from the file's former blob.
C8_Witness ==
  /\ out.cmd = "add" /\ out.exit = 0
  /\ Len(out.params) = 2 /\ out.params[1] = out.params[2]
  /\ Len(read_index(index)) = 2
  /\ Cardinality({id \in DOMAIN objects : objects[id][1] = "blob"}) = 2

\* C9: no step deletes an object or changes the bytes stored under an id.
C9_StoreOnlyGrows ==
  [][\A id \in DOMAIN objects : id \in DOMAIN objects' /\ objects'[id] = objects[id]]_vars

\* A checkout has succeeded and removed the staged file from the working
\* tree, with its blob still in the store.
C9_Witness ==
  /\ out.cmd = "checkout" /\ out.exit = 0
  /\ \E p \in DOMAIN IndexMap(index) :
       p \notin DOMAIN wt /\ ObjectExists(objects, IndexMap(index)[p])

TreePayloads ==
  {<<>>} \cup {<<<<m, "a", hash_blob(c)>>>> : m \in StatModes, c \in Contents}

WriteTwice(ty, data) ==
  LET r1 == write_object(objects, ty, data)
      r2 == write_object(r1.objects, ty, data)
  IN  /\ r2.sha = r1.sha
      /\ r2.objects = r1.objects
      /\ r1.sha \in DOMAIN r1.objects
      /\ Cardinality({id \in DOMAIN r2.objects : r2.objects[id] = r1.objects[r1.sha]}) = 1

\* C10: writing the same (type, payload) twice returns the same SHA, and the
\* store after the second write is the store after the first, with one file
\* for the object.
C10_WriteObjectIdempotent ==
  /\ \A data \in Contents : WriteTwice("blob", data)
  /\ \A data \in TreePayloads : WriteTwice("tree", data)

\* Two paths were added with the same content: the blob was written twice
\* and is stored once.
C10_Witness ==
  /\ out.cmd = "add" /\ out.exit = 0
  /\ \E i, j \in DOMAIN read_index(index) :
       i # j /\ read_index(index)[i].sha1 = read_index(index)[j].sha1
  /\ Cardinality({id \in DOMAIN objects : objects[id][1] = "blob"}) = 1

IsCheckout(o) == o.cmd = "checkout"
TargetIsBranch(target) == Len(target) = 1 /\ target[1] \in DOMAIN heads
TargetCommit(target) == IF TargetIsBranch(target) THEN heads[target[1]] ELSE target
StoredCommit(id) == id \in DOMAIN objects /\ objects[id][1] = "commit"

\* C11: after a successful checkout of <target>, HEAD is "ref: refs/heads/<target>"
\* when refs/heads/<target> existed and the literal target otherwise, and the
\* working files are exactly the paths of the target commit's tree, each
\* holding the payload of its blob.
C11_CheckoutPostcondition ==
  [][(IsCheckout(out') /\ out'.exit = 0) =>
       LET target == out'.params[1]
           tree == read_tree(objects, objects[TargetCommit(target)][2][1][2], <<>>)
       IN  /\ HEAD'.exists
           /\ HEAD'.symbolic = TargetIsBranch(target)
           /\ TargetIsBranch(target) => HEAD'.name = target[1]
           /\ ~TargetIsBranch(target) => HEAD'.sha = target
           /\ DOMAIN wt' = DOMAIN tree
           /\ \A p \in DOMAIN tree : wt'[p] = objects[tree[p]][2]]_vars

\* A checkout of a commit id has succeeded: a file staged with other content
\* holds the committed content again, and a staged file outside the commit's
\* tree is gone from the working tree.
C11_Witness ==
  /\ IsCheckout(out) /\ out.exit = 0
  /\ HEAD.exists /\ ~HEAD.symbolic
  /\ \E p \in DOMAIN wt :
       p \in DOMAIN IndexMap(index) /\ hash_blob(wt[p]) # IndexMap(index)[p]
  /\ \E q \in DOMAIN IndexMap(index) : q \notin DOMAIN wt

\* C12: a checkout whose target is neither a branch holding a commit id nor
\* the id of a commit object exits non-zero and leaves HEAD, the working tree,
\* the index and every ref as they were.
C12_InvalidTargetChangesNothing ==
  [][(IsCheckout(out') /\ ~StoredCommit(TargetCommit(out'.params[1]))) =>
       /\ out'.exit # 0
       /\ HEAD' = HEAD
       /\ wt' = wt
       /\ index' = index
       /\ heads' = heads
       /\ tags' = tags]_vars

\* A checkout of the id of a stored blob or tree has been refused in a
\* repository that has a HEAD and working files.
C12_Witness ==
  /\ IsCheckout(out) /\ out.exit = 1
  /\ out.params[1] \in DOMAIN objects
  /\ objects[out.params[1]][1] # "commit"
  /\ HEAD.exists
  /\ DOMAIN wt # {}

Listed(seq) == {seq[i] : i \in DOMAIN seq}

\* The commit HEAD names: the content of its branch file when symbolic, its
\* own content when detached, nothing without a HEAD file.
HeadCommit ==
  IF ~HEAD.exists THEN None
  ELSE IF ~HEAD.symbolic THEN HEAD.sha
  ELSE IF HEAD.name \in DOMAIN heads THEN heads[HEAD.name]
  ELSE None

\* The flat tree of that commit, empty when HEAD names no stored commit.
HeadCommitTree ==
  IF StoredCommit(HeadCommit) THEN read_tree(objects, objects[HeadCommit][2][1][2], <<>>)
  ELSE <<>>

StatusDone == out.cmd = "status" /\ out.exit = 0

\* C13: status lists a working file under staged exactly when the file is in
\* the index and its index SHA differs from its SHA in the tree of the commit
\* HEAD resolves to (or the tree lacks it), HEAD resolved through its branch
\* when symbolic and taken as the raw SHA when detached.
C13_StagedAgainstHeadTree ==
  StatusDone =>
    \A p \in DOMAIN wt :
      (p \in Listed(out.result[1])) <=>
        /\ p \in DOMAIN IndexMap(index)
        /\ (p \notin DOMAIN HeadCommitTree \/ IndexMap(index)[p] # HeadCommitTree[p])

\* C14: a file in the index with the content it has on disk, and absent from
\* the HEAD tree, is reported as staged and neither as modified nor as
\* untracked.
C14_AddedFileIsStagedOnly ==
  StatusDone =>
    \A p \in DOMAIN wt :
      (/\ p \in DOMAIN IndexMap(index)
       /\ hash_blob(wt[p]) = IndexMap(index)[p]
       /\ p \notin DOMAIN HeadCommitTree) =>
        /\ p \in Listed(out.result[1])
        /\ p \notin Listed(out.result[2])
        /\ p \notin Listed(out.result[3])

\* status has run where HEAD resolves to a stored commit whose tree lacks a
\* file that is staged with the content it has on disk.
C14_Witness ==
  /\ StatusDone
  /\ StoredCommit(HeadCommit)
  /\ \E p \in DOMAIN wt :
       /\ p \in DOMAIN IndexMap(index)
       /\ hash_blob(wt[p]) = IndexMap(index)[p]
       /\ p \notin DOMAIN HeadCommitTree
       /\ out.result = <<<<p>>, <<>>, <<>>>>

IsCreate(o) == o.cmd = "branch" /\ Len(o.params) = 1 /\ o.params[1] # <<"-d">>

\* C15: branch <name> fails, leaving every ref and HEAD as they were, when
\* refs/heads/<name> exists or HEAD resolves to no commit; otherwise it
\* creates refs/heads/<name> holding the commit HEAD resolves to and changes
\* no other ref.
C15_BranchCreate ==
  [][IsCreate(out') =>
       LET name == out'.params[1][1]
       IN  IF name \in DOMAIN heads \/ HeadCommit = None
           THEN /\ out'.exit # 0
                /\ heads' = heads /\ tags' = tags /\ HEAD' = HEAD
           ELSE /\ out'.exit = 0
                /\ heads' = (name :> HeadCommit) @@ heads
                /\ tags' = tags /\ HEAD' = HEAD]_vars

WritingCommands == {"add", "write-tree", "commit", "checkout", "branch", "tag"}

\* C16: add, write-tree, commit, checkout, branch and tag, run where .jacobgit
\* does not exist, exit non-zero and create nothing under .jacobgit.
C16_NotARepositoryWritesNothing ==
  [][(~IsRepo(dirs) /\ out'.cmd \in WritingCommands) =>
       /\ out'.exit # 0
       /\ dirs' = dirs
       /\ objects' = objects
       /\ index' = index
       /\ HEAD' = HEAD /\ heads' = heads /\ tags' = tags]_vars

\* The commit ids held by the refs: every non-empty branch file, every tag
\* file and a detached HEAD.
RefTargets ==
  {heads[n] : n \in DOMAIN heads} \cup {tags[n] : n \in DOMAIN tags}
  \cup (IF HEAD.exists /\ ~HEAD.symbolic THEN {HEAD.sha} ELSE {})

\* c is a stored commit whose tree and the blobs the tree lists are stored.
Complete(c) ==
  /\ StoredCommit(c)
  /\ TreeReadable(objects, objects[c][2][1][2])
  /\ \A p \in DOMAIN read_tree(objects, objects[c][2][1][2], <<>>) :
       LET b == read_tree(objects, objects[c][2][1][2], <<>>)[p]
       IN  b \in DOMAIN objects /\ objects[b][1] = "blob"

\* C17: at every point, between the file writes of an invocation too, every
\* non-empty branch ref, every tag ref and a detached HEAD names a commit
\* object that is stored, with its tree and the blobs the tree lists.
C17_RefsNameStoredCommits ==
  \A c \in RefTargets : c # None => Complete(c)

\* A commit is between its writes: the commit object, whose tree lists a
\* blob, is stored and the branch file does not name it yet, while a branch
\* and a tag name the commit made before.
C17_Witness ==
  /\ Running
  /\ Len(out.result) = 1
  /\ out.result[1].file = "ref"
  /\ Complete(out.result[1].bytes)
  /\ DOMAIN read_tree(objects, objects[out.result[1].bytes][2][1][2], <<>>) # {}
  /\ out.result[1].bytes \notin RefTargets
  /\ DOMAIN heads # {} /\ DOMAIN tags # {}

\* The index file holding the same entries in the order f gives.
Reordered(f) ==
  write_index([i \in DOMAIN read_index(index) |-> read_index(index)[f[i]]])

\* C18: write_tree returns the same SHA when applied again to the unchanged
\* index, and for every index that holds the same entries in another order.
C18_WriteTreeOrderFree ==
  LET r == write_tree(objects, index)
  IN  /\ write_tree(r.objects, index).sha = r.sha
      /\ \A f \in Permutations(DOMAIN read_index(index)) :
           write_tree(objects, Reordered(f)).sha = r.sha

\* write-tree has run on an index that lists b before a, with different blobs.
C18_Witness ==
  /\ out.cmd = "write-tree"
  /\ Len(read_index(index)) = 2
  /\ read_index(index)[1].path = <<"b">>
  /\ read_index(index)[2].path = <<"a">>
  /\ read_index(index)[1].sha1 # read_index(index)[2].sha1
  /\ out.result[1] \in DOMAIN objects

\* C19: with HEAD symbolic to a branch, a commit writes the new commit's SHA
\* to that branch's file and leaves HEAD's text, every other branch file,
\* every tag, the index and the working tree as they were.
C19_CommitMovesOnlyItsBranch ==
  [][(HEAD.exists /\ HEAD.symbolic /\ out'.cmd = "commit" /\ out'.exit = 0) =>
       /\ heads' = (HEAD.name :> out'.result[1]) @@ heads
       /\ out'.result[1] \in DOMAIN objects' /\ objects'[out'.result[1]][1] = "commit"
       /\ HEAD' = HEAD
       /\ tags' = tags
       /\ index' = index
       /\ wt' = wt]_vars

\* A commit has been made on ster, which names it, while master and a tag
\* name the earlier commit and the index and working tree hold a file.
C19_Witness ==
  /\ out.cmd = "commit" /\ out.exit = 0
  /\ HEAD.exists /\ HEAD.symbolic /\ HEAD.name = "ster"
  /\ Len(made) = 2
  /\ DOMAIN heads = {"master", "ster"}
  /\ heads["ster"] = made[2] /\ heads["master"] = made[1]
  /\ "v1" \in DOMAIN tags /\ tags["v1"] = made[1]
  /\ DOMAIN wt # {} /\ read_index(index) # <<>>

\* The walk from sha along the parent lines reaches, within fuel commits, a
\* stored commit without a parent line, through stored commits only.
RECURSIVE Rooted(_, _)
Rooted(sha, fuel) ==
  /\ StoredCommit(sha)
  /\ LET meta == Meta(objects[sha][2])
         parents == {i \in DOMAIN meta : meta[i][1] = "parent"}
     IN  \/ parents = {}
         \/ /\ fuel > 1
            /\ \A i \in parents : Rooted(meta[i][2], fuel - 1)

\* C20: the parent links of the stored commits form no cycle: from every
\* stored commit, and so from the commit HEAD resolves to, the walk reaches a
\* commit without a parent in at most as many steps as there are commits, and
\* log ends having printed no commit twice.
C20_LogWalkEnds ==
  /\ \A c \in CommitIds : Rooted(c, Cardinality(CommitIds))
  /\ (out.cmd = "log" /\ IsRepo(dirs)) =>
       /\ out.exit = 0
       /\ \A i, j \in DOMAIN out.result : out.result[i] = out.result[j] => i = j
       /\ out.result # <<>> => Rooted(out.result[Len(out.result)], 1)

\* log has walked from the commit HEAD resolves to through its parent to the
\* root commit.
C20_Witness ==
  /\ out.cmd = "log" /\ out.exit = 0
  /\ Len(out.result) = 2
  /\ out.result[1] = HeadCommit
  /\ Rooted(out.result[2], 1)

PathsIn(es) == {es[i].path : i \in DOMAIN es}

\* Both add processes have written the index, and neither path was in the
\* index when they started.
RaceDone ==
  /\ out.cmd = "add-race"
  /\ out.result[1].pc = "done" /\ out.result[2].pc = "done"
  /\ out.result[1].path \notin PathsIn(out.result[4])
  /\ out.result[2].path \notin PathsIn(out.result[4])

\* C21: two adds of different paths run without a lock: the index file ends
\* as the list of the process that wrote last, and holds the other process's
\* path only when the last writer read the index after the other one wrote
\* it; when both read before either wrote, one path is lost.
C21_LastWriterWins ==
  RaceDone =>
    \A i \in 1..2 :
      LET last == out.result[i]
          other == out.result[3 - i]
      IN  last.wrote_at > other.wrote_at =>
            /\ index.exists /\ index.entries = last.entries
            /\ last.path \in PathsIn(index.entries)
            /\ (other.path \in PathsIn(index.entries)) <=> (last.read_at > other.wrote_at)

\* The lost update: both processes read the index before either wrote it,
\* both blobs are stored, and the index holds one of the two paths.
C21_Witness ==
  /\ RaceDone
  /\ \A i, j \in 1..2 : out.result[i].read_at < out.result[j].wrote_at
  /\ \A i \in 1..2 : hash_blob(wt[out.result[i].path]) \in DOMAIN objects
  /\ Cardinality(PathsIn(index.entries) \cap {out.result[1].path, out.result[2].path}) = 1

\* C22: a checkout, successful or not, leaves the index, every branch file,
\* every tag file and the object store as they were.
C22_CheckoutKeepsIndexRefsStore ==
  [][IsCheckout(out') =>
       /\ index' = index
       /\ heads' = heads
       /\ tags' = tags
       /\ objects' = objects]_vars

\* A checkout of a branch has succeeded and removed a staged file from the
\* working tree: the index still lists it, and two branches and a tag exist.
C22_Witness ==
  /\ IsCheckout(out) /\ out.exit = 0
  /\ HEAD.exists /\ HEAD.symbolic
  /\ \E p \in PathsIn(read_index(index)) : p \notin DOMAIN wt
  /\ Cardinality(DOMAIN heads) = 2
  /\ DOMAIN tags # {}
  /\ heads["master"] # heads["ster"]

\* C23: whenever HEAD is symbolic, "ref: refs/heads/<b>", the branch file
\* refs/heads/<b> exists.
C23_SymbolicHeadHasBranchFile ==
  (HEAD.exists /\ HEAD.symbolic) => HEAD.name \in DOMAIN heads

\* C24: an add that lists a path missing from the working tree fails and
\* leaves the index file as it was, also for the listed paths before the
\* missing one.
C24_FailedAddKeepsIndex ==
  [][(out'.cmd = "add" /\ \E i \in DOMAIN out'.params : out'.params[i] \notin DOMAIN wt)
       => (out'.exit # 0 /\ index' = index)]_vars

\* An add of an existing path followed by a missing one has failed in a
\* repository: the blob of the first path is stored and the index, which
\* holds another path, has no entry for it.
C24_Witness ==
  /\ out.cmd = "add" /\ out.exit = 1 /\ IsRepo(dirs)
  /\ Len(out.params) = 2
  /\ out.params[1] \in DOMAIN wt /\ out.params[2] \notin DOMAIN wt
  /\ hash_blob(wt[out.params[1]]) \in DOMAIN objects
  /\ read_index(index) # <<>>
  /\ out.params[1] \notin PathsIn(read_index(index))

====
